---- MODULE Spec2Model ----
(***************************************************************************)
(* Translation orchestration of the NeuraL translator front-end:           *)
(* App.detectLanguageAndTranslate and the state it reads and writes        *)
(* (src/src/components/LanguageSelector.tsx, lines 122-460).               *)
(*                                                                         *)
(* A string of the program is a sequence of fragments (characters or       *)
(* words): trim, includes and concatenation are computed on it.            *)
(* A language tag is an atomic string.                                     *)
(***************************************************************************)
EXTENDS Integers, Sequences, FiniteSets, TLC

\* ------------------------------------------------------------------ bounds
\* The languages of the model, a subset of the seven of `languages`.
Langs == {"Japanese", "English", "Chinese"}
\* The texts of the input field: a word and a blank text.
Texts == {<<"a">>, <<" ">>}
\* The translations a backend can return: the empty string and a word.
Translations == {<<>>, <<"T">>}
\* Handle invocations in flight together.
MaxInFlight == 2
\* Handle invocations started in one behaviour of Spec.
MaxCalls == 2
\* Handle invocations started in one behaviour of SpecSelect.
MaxSelectCalls == 1
\* Language selections and settings changes in one behaviour of SpecSelect.
MaxSteps == 2
\* Handle invocations started in one behaviour of SpecEngines.
MaxEngineCalls == 1
\* Handle invocations started in one behaviour of SpecShortcut.
MaxShortcutCalls == 2
\* Handle invocations started in one behaviour of SpecReload.
MaxReloadCalls == 2
\* Health probe answers in one behaviour of SpecEngines and of SpecReload.
MaxProbes == 2
\* The texts the user types in SpecSwap: two words.
SwapTexts == {<<"a">>, <<"b">>}
\* Handle invocations started in one behaviour of SpecSwap.
MaxSwapCalls == 1
\* Handle invocations started in one behaviour of SpecLive.
MaxLiveCalls == 1
\* Handle invocations started in one behaviour of SpecClipboard.
MaxClipCalls == 1
\* Clipboard reads pending together.
MaxPolls == 2
\* The latencies a backend reports or the program measures.
Latencies == {0, 1}
\* The size the cache is trimmed to. The program keeps 100 entries
\* (LanguageSelector.tsx:369); the model runs the same code with a small
\* limit so that the limit is reached within MaxCalls invocations.
CacheLimit == 1

\* ------------------------------------------------------------ program text
NoValue == "undefined"
Engines == {"ml", "ollama"}
Slots == 1..MaxInFlight

\* The values an invoke() call can reject with: strings, and an Error object.
ErrorObject == [type |-> "object", text |-> <<>>]
StringError(s) == [type |-> "string", text |-> s]
ErrCannotConnect == StringError(<<"Cannot connect to Ollama", ": refused">>)
ErrNoModel == StringError(<<"No suitable ", "model", " available">>)
ErrModel == StringError(<<"failed to load ", "model">>)
ErrOther == StringError(<<"timeout">>)
NoError == [type |-> "none", text |-> <<>>]
Errors == {ErrorObject, ErrCannotConnect, ErrNoModel, ErrModel, ErrOther}

\* The messages of the catch block, in English.
MsgGeneric == <<"translation error occurred">>
MsgCannotConnect == <<"cannot connect to Ollama; run: ollama serve">>
MsgNoModel == <<"no suitable model; run: ollama pull llama3.1:8b">>
MsgModelLoad == <<"model loading error; retry later">>
MsgUnavailable == <<"translation engine unavailable; run: ollama serve">>
MsgRaw(error) == <<"error: ">> \o error.text

\* ---------------------------------------------------------- pure functions
IsSpace(c) == c = " "

RECURSIVE TrimStart(_)
TrimStart(s) ==
  IF s # <<>> /\ IsSpace(Head(s)) THEN TrimStart(Tail(s)) ELSE s

RECURSIVE TrimEnd(_)
TrimEnd(s) ==
  IF s # <<>> /\ IsSpace(s[Len(s)]) THEN TrimEnd(SubSeq(s, 1, Len(s) - 1)) ELSE s

\* String.prototype.trim
Trim(s) == TrimEnd(TrimStart(s))

\* The string a sequence of fragments spells.
RECURSIVE Join(_)
Join(s) == IF s = <<>> THEN "" ELSE Head(s) \o Join(Tail(s))

\* String.prototype.includes, on fragments.
Includes(s, phrase) ==
  \E i \in 1..(Len(s) - Len(phrase) + 1) :
    SubSeq(s, i, i + Len(phrase) - 1) = phrase

\* typeof error === 'string'
IsString(error) == error.type = "string"

\* localStorage.getItem("nativeLang") || "Japanese"
NativeLangOf(stored) == IF stored = NoValue THEN "Japanese" ELSE stored

\* The smart language switching of lines 274-300: the target of the
\* effective pair, and whether setToLang is called with it.
ResolveAutoThirdToEnglish(detectedLang, native) ==
  IF detectedLang = native THEN "English"
  ELSE IF detectedLang = "English" THEN native
  ELSE "English"

ResolveAuto(detectedLang, native) ==
  IF detectedLang = native THEN "English"
  ELSE IF detectedLang = "English" THEN native
  ELSE native

ResolveManual(detectedLang, native) ==
  IF detectedLang = native THEN "English" ELSE native

ResolveTarget(declaredFrom, detectedLang, currentTo, native) ==
  IF declaredFrom = "Auto"
    THEN [to |-> ResolveAuto(detectedLang, native), set |-> TRUE]
  ELSE IF detectedLang = currentTo
    THEN [to |-> ResolveManual(detectedLang, native), set |-> TRUE]
  ELSE [to |-> currentTo, set |-> FALSE]

\* `${text}|${actualFromLang}|${actualToLang}`
CacheKeyOf(text, from, to) == Join(text) \o "|" \o from \o "|" \o to

\* Map.prototype.get on the insertion-ordered sequence of entries.
CacheHas(cache, key) == \E n \in 1..Len(cache) : cache[n].key = key
CacheGet(cache, key) ==
  (CHOOSE e \in {cache[n] : n \in 1..Len(cache)} : e.key = key).value

\* const cached = translationCache.get(cacheKey); if (cached): undefined
\* and the empty string are falsy.
CacheHit(cache, key) == CacheHas(cache, key) /\ CacheGet(cache, key) # <<>>

\* Map.prototype.set: an existing key keeps its place and takes the value.
CacheSet(cache, key, value) ==
  IF CacheHas(cache, key)
    THEN [n \in 1..Len(cache) |->
            IF cache[n].key = key THEN [key |-> key, value |-> value] ELSE cache[n]]
    ELSE Append(cache, [key |-> key, value |-> value])

\* Lines 368-374: drop the first key when the size is over the limit and
\* the first key is truthy.
LimitCache(cache) ==
  IF Len(cache) > CacheLimit /\ cache[1].key # "" THEN Tail(cache) ELSE cache

\* useMLEngine && mlEngineHealthy, as the invocation's closure sees them.
UseML(r) == r.useMLEngine /\ r.mlEngineHealthy
FirstEngineOllama(r) == "ollama"

FirstEngine(r) == IF UseML(r) THEN "ml" ELSE "ollama"

\* Line 381: the guard of the fallback to Ollama.
FallbackGuard(r) == r.useMLEngine /\ r.mlEngineHealthy /\ r.isHealthy

ErrorMessageBlank(error, r) == <<>>

\* Lines 378, 425-438: the message for a failure.
ErrorMessage(error, r) ==
  IF IsString(error) THEN
    IF Includes(error.text, <<"Cannot connect to Ollama">>) THEN MsgCannotConnect
    ELSE IF Includes(error.text, <<"No suitable ", "model", " available">>) THEN MsgNoModel
    ELSE IF Includes(error.text, <<"model">>) THEN MsgModelLoad
    ELSE MsgRaw(error)
  ELSE IF ~r.isHealthy /\ ~r.mlEngineHealthy THEN MsgUnavailable
  ELSE MsgGeneric

\* -------------------------------------------------------------------- state
VARIABLES
  inputText,              \* useState("")
  translatedText,         \* useState("")
  fromLang,               \* useState("Auto")
  toLang,                 \* useState(nativeLang || "Japanese")
  isTranslating,          \* useState(false)
  isHealthy,              \* useState(false): Ollama's health flag
  mlEngineHealthy,        \* useState(false)
  useMLEngine,            \* useState(false): the preference flag
  translationCache,       \* the Map, as its insertion-ordered entries
  lastTranslationLatency, \* <<>> for undefined, <<n>> for n
  lastUsedEngine,         \* NoValue, "ml" or "ollama"
  nativeLang,             \* localStorage "nativeLang", NoValue when absent
  saveHistory,            \* localStorage "saveHistory" !== 'false'
  history,                \* the records the history sink has stored
  timer,                  \* the pending debounce timeout and its closure
  healthPending,          \* the health probes that have not answered yet
  listener,               \* what the registered event listeners have captured
  autoTranslate,          \* useState(false): the clipboard monitoring switch
  lastClipboard,          \* useState(""): the last clipboard text taken
  polls,                  \* the clipboard reads that have not answered yet
  inv,                    \* the handle invocations, one per slot
  stepsLeft,              \* selections and settings changes still allowed
  probesLeft,             \* health probe answers still allowed
  callsLeft,              \* handle invocations still allowed to start
  lastWriter,             \* the slot that wrote translatedText last, 0 if none did
  last                    \* the invocation that completed last, as it ended

vars == <<inputText, translatedText, fromLang, toLang, isTranslating, isHealthy,
          mlEngineHealthy, useMLEngine, translationCache, lastTranslationLatency,
          lastUsedEngine, nativeLang, saveHistory, history, timer, healthPending,
          listener, autoTranslate, lastClipboard, polls, inv, stepsLeft,
          probesLeft, callsLeft, lastWriter, last>>

prefs == <<nativeLang, saveHistory>>
flags == <<isHealthy, mlEngineHealthy, useMLEngine>>
meta == <<lastTranslationLatency, lastUsedEngine>>
counters == <<stepsLeft, probesLeft, callsLeft>>
clip == <<autoTranslate, lastClipboard, polls>>

NoTimer == [set |-> FALSE]

\* What a closure created by a render holds of the state it reads later.
Closure ==
  [fromLang |-> fromLang, toLang |-> toLang, useMLEngine |-> useMLEngine,
   mlEngineHealthy |-> mlEngineHealthy, isHealthy |-> isHealthy]

\* The engine flags as a render sees them.
Flags ==
  [useMLEngine |-> useMLEngine, mlEngineHealthy |-> mlEngineHealthy,
   isHealthy |-> isHealthy]

\* What the listeners registered by the effect of lines 144-190 capture of
\* the render that registers them, beside fromLang, toLang and
\* translatedText (the dependencies of the effect): the engine flags and
\* the input text, here `text`.
ListenerOf(text) ==
  [useMLEngine |-> useMLEngine, mlEngineHealthy |-> mlEngineHealthy,
   isHealthy |-> isHealthy, inputText |-> text]

\* The closure of the listeners registered by the effect of lines 144-190:
\* the render that registered them had the current fromLang and toLang
\* (they are dependencies of the effect) and the flags of that time.
ListenerClosure ==
  [fromLang |-> fromLang, toLang |-> toLang,
   useMLEngine |-> listener.useMLEngine,
   mlEngineHealthy |-> listener.mlEngineHealthy,
   isHealthy |-> listener.isHealthy]

\* A slot no invocation uses.
Idle ==
  [pc |-> "idle", text |-> <<>>, fromLang |-> "Auto", toLang |-> "Japanese",
   useMLEngine |-> FALSE, mlEngineHealthy |-> FALSE, isHealthy |-> FALSE,
   actualFromLang |-> "Auto", actualToLang |-> "Japanese", cacheKey |-> "",
   error |-> NoError, saved |-> <<>>,
   \* what the invocation has done so far
   detected |-> NoValue, detectFailed |-> FALSE, entered |-> FALSE,
   calls |-> <<>>, failed |-> {}, wrote |-> FALSE, written |-> <<>>,
   engineUsed |-> NoValue, outcome |-> NoValue, overlapped |-> FALSE,
   selected |-> FALSE, prior |-> {}]

InFlight(r) == r.pc # "idle"
FreeSlots == {i \in Slots : ~InFlight(inv[i])}
BusySlots == {i \in Slots : InFlight(inv[i])}

Start ==
  /\ inputText = <<>>
  /\ translatedText = <<>>
  /\ fromLang = "Auto"
  /\ nativeLang = NoValue
  /\ toLang = NativeLangOf(nativeLang)
  /\ isTranslating = FALSE
  /\ isHealthy = FALSE
  /\ mlEngineHealthy = FALSE
  /\ useMLEngine = FALSE
  /\ translationCache = <<>>
  /\ lastTranslationLatency = <<>>
  /\ lastUsedEngine = NoValue
  /\ saveHistory = TRUE
  /\ history = <<>>
  /\ timer = NoTimer
  /\ healthPending = Engines
  /\ listener = ListenerOf(inputText)
  /\ autoTranslate = FALSE
  /\ lastClipboard = <<>>
  /\ polls = <<>>
  /\ inv = [i \in Slots |-> Idle]
  /\ lastWriter = 0
  /\ last = Idle

\* Spec: overlapping invocations, the engines and the selectors as they are
\* at start-up.
Init ==
  /\ Start
  /\ stepsLeft = 0
  /\ probesLeft = 0
  /\ callsLeft = MaxCalls

\* SpecSelect: the user's language selections and settings changes.
InitSelect ==
  /\ Start
  /\ stepsLeft = MaxSteps
  /\ probesLeft = 0
  /\ callsLeft = MaxSelectCalls

\* SpecEngines: the health probes and the engine preference.
InitEngines ==
  /\ Start
  /\ stepsLeft = 0
  /\ probesLeft = MaxProbes
  /\ callsLeft = MaxEngineCalls

\* SpecShortcut: overlapping invocations started by the translate shortcut
\* and the debounce timer, the engines as they are at start-up.
InitShortcut ==
  /\ Start
  /\ stepsLeft = 0
  /\ probesLeft = 0
  /\ callsLeft = MaxShortcutCalls

\* SpecLive: the steps of Spec, with backends that answer every call.
InitLive ==
  /\ Start
  /\ stepsLeft = 0
  /\ probesLeft = 0
  /\ callsLeft = MaxLiveCalls

\* SpecSwap: the language swap, by its button and by its shortcut.
InitSwap ==
  /\ Start
  /\ stepsLeft = 0
  /\ probesLeft = 0
  /\ callsLeft = MaxSwapCalls

\* SpecClipboard: the clipboard monitoring.
InitClipboard ==
  /\ Start
  /\ stepsLeft = 0
  /\ probesLeft = 0
  /\ callsLeft = MaxClipCalls

\* SpecReload: invocations one after the other, with the health probes,
\* the engine preference and the fallback.
InitReload ==
  /\ Start
  /\ stepsLeft = 0
  /\ probesLeft = MaxProbes
  /\ callsLeft = MaxReloadCalls

\* ------------------------------------------------------------------ effects
\* A selection or a settings change, counted against MaxSteps.
UserStep ==
  /\ stepsLeft > 0
  /\ stepsLeft' = stepsLeft - 1
  /\ UNCHANGED <<probesLeft, callsLeft>>

\* A health probe answer, counted against MaxProbes.
ProbeStep ==
  /\ probesLeft > 0
  /\ probesLeft' = probesLeft - 1
  /\ UNCHANGED <<stepsLeft, callsLeft>>

\* The effect of lines 144-190 runs again when fromLang, toLang or
\* translatedText changed: checkOllamaHealth() and checkMLHealth().
MountEffectIf(rerun) ==
  /\ healthPending' = IF rerun THEN Engines ELSE healthPending
  /\ listener' = IF rerun THEN ListenerOf(inputText') ELSE listener

MountEffect ==
  MountEffectIf(<<fromLang', toLang', translatedText'>>
                  # <<fromLang, toLang, translatedText>>)

\* checkOllamaHealth, lines 226-234: the probe answers, or fails (false).
checkOllamaHealth(healthy) ==
  /\ "ollama" \in healthPending
  /\ ProbeStep
  /\ isHealthy' = healthy
  /\ healthPending' = healthPending \ {"ollama"}
  /\ UNCHANGED <<inputText, translatedText, fromLang, toLang, isTranslating,
                 mlEngineHealthy, useMLEngine, translationCache, meta, prefs,
                 history, timer, listener, inv, lastWriter, last>>
  /\ UNCHANGED clip

\* checkMLHealth, lines 236-245.
checkMLHealth(healthy) ==
  /\ "ml" \in healthPending
  /\ ProbeStep
  /\ mlEngineHealthy' = healthy
  /\ healthPending' = healthPending \ {"ml"}
  /\ UNCHANGED <<inputText, translatedText, fromLang, toLang, isTranslating,
                 isHealthy, useMLEngine, translationCache, meta, prefs,
                 history, timer, listener, inv, lastWriter, last>>
  /\ UNCHANGED clip

\* ------------------------------------------------- starting an invocation
Min(S) == CHOOSE x \in S : \A y \in S : x <= y

SettledOk(r) == r.pc = "done" /\ r.outcome \in {"hit", "success", "fallback"}

\* What a settled invocation leaves for later ones to be compared with.
Summary(r) ==
  [text |-> r.text, from |-> r.actualFromLang, to |-> r.actualToLang,
   value |-> r.written]

\* Lines 247-265: the record of a handle invocation that has passed the
\* blank check, set its locals and issued its detection call.
NewInvocation(text, c) ==
  [Idle EXCEPT !.pc = "detect", !.text = text,
     !.fromLang = c.fromLang, !.toLang = c.toLang,
     !.useMLEngine = c.useMLEngine, !.mlEngineHealthy = c.mlEngineHealthy,
     !.isHealthy = c.isHealthy,
     !.actualFromLang = c.fromLang, !.actualToLang = c.toLang,
     !.overlapped = (BusySlots # {}),
     !.prior = IF SettledOk(last) THEN {Summary(last)} ELSE {}]

translateTextAnyText(text, c) ==
  /\ FreeSlots # {}
  /\ callsLeft > 0
  /\ callsLeft' = callsLeft - 1
  /\ inv' = [inv EXCEPT ![Min(FreeSlots)] = NewInvocation(text, c)]

\* translateText(text), lines 446-448 and 247-265, called from a closure c:
\* a blank text returns at once, any other takes a slot.
translateText(text, c) ==
  IF Trim(text) = <<>>
    THEN UNCHANGED <<inv, callsLeft>>
    ELSE /\ FreeSlots # {}
         /\ callsLeft > 0
         /\ callsLeft' = callsLeft - 1
         /\ LET i == Min(FreeSlots) IN
              inv' = [j \in Slots |->
                        IF j = i THEN NewInvocation(text, c)
                        ELSE IF InFlight(inv[j])
                          THEN [inv[j] EXCEPT !.overlapped = TRUE]
                          ELSE inv[j]]

\* --------------------------------------------------------------- the user
\* The main screen is rendered once the native language is set (line 468).
MainScreen == nativeLang # NoValue

DebounceEffectNoCleanup(text) ==
  IF Trim(text) = <<>>
    THEN /\ translatedText' = <<>>
         /\ lastWriter' = 0
         /\ UNCHANGED timer
    ELSE /\ UNCHANGED <<translatedText, lastWriter>>
         /\ timer' = IF timer.set THEN timer
                      ELSE [set |-> TRUE, text |-> text, closure |-> Closure']

\* The effect of lines 192-204 after inputText became `text`: the cleanup
\* of the previous run clears its timeout, then a blank text clears the
\* result and any other text starts the timeout.
DebounceEffect(text) ==
  IF Trim(text) = <<>>
    THEN /\ translatedText' = <<>>
         /\ lastWriter' = 0
         /\ timer' = NoTimer
    ELSE /\ UNCHANGED <<translatedText, lastWriter>>
         /\ timer' = [set |-> TRUE, text |-> text, closure |-> Closure']

\* onSourceTextChange={setInputText}, line 604: an edit of the input.
setInputText(text) ==
  /\ MainScreen
  /\ text # inputText
  /\ inputText' = text
  /\ UNCHANGED <<fromLang, toLang, flags>>
  /\ DebounceEffect(text)
  /\ UNCHANGED <<isTranslating, translationCache, meta, prefs, history, inv,
                 counters, last>>
  /\ UNCHANGED clip
  /\ MountEffect

\* The debounce timeout of lines 199-201 expires.
TimerFire ==
  /\ timer.set
  /\ translateText(timer.text, timer.closure)
  /\ timer' = NoTimer
  /\ UNCHANGED <<inputText, translatedText, fromLang, toLang, isTranslating,
                 flags, translationCache, meta, prefs, history, healthPending, listener,
                 stepsLeft, probesLeft, lastWriter, last>>
  /\ UNCHANGED clip

\* onLoadTranslation, lines 480-484: a reload from the history screen.
onLoadTranslation(sourceText) ==
  /\ MainScreen
  /\ Trim(sourceText) # <<>>
  /\ inputText' = sourceText
  /\ translateText(sourceText, Closure)
  /\ UNCHANGED <<fromLang, toLang, flags>>
  /\ IF sourceText # inputText
       THEN DebounceEffect(sourceText)
       ELSE UNCHANGED <<translatedText, lastWriter, timer>>
  /\ UNCHANGED <<isTranslating, translationCache, meta, prefs, history,
                 stepsLeft, probesLeft, last>>
  /\ UNCHANGED clip
  /\ MountEffect

\* The translate-shortcut listener, lines 149-160, once get_clipboard_text
\* has answered with a non-empty text.
translateShortcut(clipboardText) ==
  /\ clipboardText # <<>>
  /\ inputText' = clipboardText
  /\ translateText(clipboardText, ListenerClosure)
  /\ UNCHANGED <<fromLang, toLang, flags>>
  /\ IF clipboardText # inputText
       THEN DebounceEffect(clipboardText)
       ELSE UNCHANGED <<translatedText, lastWriter, timer>>
  /\ UNCHANGED <<isTranslating, translationCache, meta, prefs, history,
                 stepsLeft, probesLeft, last>>
  /\ UNCHANGED clip
  /\ MountEffect

\* switchLanguages, lines 450-460, in a closure whose inputText is
\* tempText, followed by the effects of the render: the debounce effect
\* when the input text has changed, and the effect of lines 144-190 when
\* one of its dependencies has changed in the swap or in the debounce effect.
switchLanguages(tempText) ==
  IF fromLang # "Auto"
    THEN /\ fromLang' = toLang
         /\ toLang' = fromLang
         /\ inputText' = translatedText
         /\ lastWriter' = 0
         /\ UNCHANGED <<isTranslating, flags, translationCache, meta, prefs,
                        history, inv, counters, last, clip>>
         /\ IF translatedText = inputText
              THEN /\ translatedText' = tempText
                   /\ UNCHANGED timer
              ELSE IF Trim(translatedText) = <<>>
                THEN /\ translatedText' = <<>>
                     /\ timer' = NoTimer
                ELSE /\ translatedText' = tempText
                     /\ timer' = [set |-> TRUE, text |-> translatedText,
                                   closure |-> Closure']
         /\ MountEffectIf(\/ fromLang # toLang
                          \/ tempText # translatedText
                          \/ translatedText' # tempText)
    ELSE UNCHANGED vars

\* onClick={switchLanguages}, line 580: the closure of the current render.
switchLanguagesButton ==
  /\ MainScreen
  /\ switchLanguages(inputText)

\* The language-swap listener, lines 162-165: the closure of the render
\* that registered the listeners.
languageSwapListener == switchLanguages(listener.inputText)

\* The clipboard monitoring switch, line 540.
toggleAutoTranslate ==
  /\ MainScreen
  /\ autoTranslate' = ~autoTranslate
  /\ UNCHANGED <<inputText, translatedText, fromLang, toLang, isTranslating,
                 flags, translationCache, meta, prefs, history, timer,
                 healthPending, listener, lastClipboard, polls, inv, counters,
                 lastWriter, last>>

\* checkClipboard, lines 210-212, called by the interval of line 222, which
\* exists while autoTranslate is set: get_clipboard_text is invoked. The
\* closure is the one of the render that has the current lastClipboard
\* (a dependency of the effect).
checkClipboard ==
  /\ autoTranslate
  /\ Len(polls) < MaxPolls
  /\ polls' = Append(polls, lastClipboard)
  /\ UNCHANGED <<inputText, translatedText, fromLang, toLang, isTranslating,
                 flags, translationCache, meta, prefs, history, timer,
                 healthPending, listener, autoTranslate, lastClipboard, inv,
                 counters, lastWriter, last>>

\* The sequence s without its n-th element.
Remove(s, n) == SubSeq(s, 1, n - 1) \o SubSeq(s, n + 1, Len(s))

\* checkClipboard, lines 213-216: the n-th pending read answers with
\* clipboardText.
checkClipboardAnswer(n, clipboardText) ==
  /\ n \in 1..Len(polls)
  /\ polls' = Remove(polls, n)
  /\ UNCHANGED <<fromLang, toLang, flags, autoTranslate>>
  /\ IF /\ clipboardText # <<>>
        /\ clipboardText # polls[n]
        /\ Trim(clipboardText) # <<>>
       THEN /\ lastClipboard' = clipboardText
            /\ inputText' = clipboardText
            /\ IF clipboardText # inputText
                 THEN DebounceEffect(clipboardText)
                 ELSE UNCHANGED <<translatedText, lastWriter, timer>>
       ELSE UNCHANGED <<lastClipboard, inputText, translatedText, lastWriter,
                        timer>>
  /\ UNCHANGED <<isTranslating, translationCache, meta, prefs, history, inv,
                 counters, last>>
  /\ MountEffect

\* checkClipboard, lines 217-219: the n-th pending read fails.
checkClipboardError(n) ==
  /\ n \in 1..Len(polls)
  /\ polls' = Remove(polls, n)
  /\ UNCHANGED <<inputText, translatedText, fromLang, toLang, isTranslating,
                 flags, translationCache, meta, prefs, history, timer,
                 healthPending, listener, autoTranslate, lastClipboard, inv,
                 counters, lastWriter, last>>

\* A selection made while invocations are in flight is noted in them.
Selecting ==
  inv' = [j \in Slots |->
            IF InFlight(inv[j]) THEN [inv[j] EXCEPT !.selected = TRUE]
            ELSE inv[j]]

\* onLanguageChange={setFromLang}, line 574.
selectFromLang(language) ==
  /\ MainScreen
  /\ UserStep
  /\ language # fromLang
  /\ fromLang' = language
  /\ UNCHANGED <<toLang, translatedText>>
  /\ Selecting
  /\ UNCHANGED <<inputText, isTranslating, flags, translationCache, meta, prefs,
                 history, timer, lastWriter, last>>
  /\ UNCHANGED clip
  /\ MountEffect

\* onLanguageChange={setToLang}, line 592.
selectToLang(language) ==
  /\ MainScreen
  /\ UserStep
  /\ language # toLang
  /\ toLang' = language
  /\ UNCHANGED <<fromLang, translatedText>>
  /\ Selecting
  /\ UNCHANGED <<inputText, isTranslating, flags, translationCache, meta, prefs,
                 history, timer, lastWriter, last>>
  /\ UNCHANGED clip
  /\ MountEffect

\* The engine preference toggle, lines 524-537.
toggleEngine ==
  /\ MainScreen
  /\ mlEngineHealthy \/ isHealthy
  /\ useMLEngine' = ~useMLEngine
  /\ UNCHANGED <<inputText, translatedText, fromLang, toLang, isTranslating,
                 isHealthy, mlEngineHealthy, translationCache, meta, prefs,
                 history, timer, healthPending, listener, inv, counters, lastWriter, last>>
  /\ UNCHANGED clip

\* setupNativeLanguage, lines 462-466: the first-run choice.
setupNativeLanguage(language) ==
  /\ ~MainScreen
  /\ nativeLang' = language
  /\ toLang' = language
  /\ UNCHANGED <<fromLang, translatedText>>
  /\ UNCHANGED <<inputText, isTranslating, flags, translationCache, meta,
                 saveHistory, history, timer, inv, counters, lastWriter, last>>
  /\ UNCHANGED clip
  /\ MountEffect

\* SettingsScreen.handleLanguageChange.
handleLanguageChange(langCode) ==
  /\ MainScreen
  /\ UserStep
  /\ langCode # nativeLang
  /\ nativeLang' = langCode
  /\ UNCHANGED <<inputText, translatedText, fromLang, toLang, isTranslating,
                 flags, translationCache, meta, saveHistory, history, timer,
                 healthPending, listener, inv, lastWriter, last>>
  /\ UNCHANGED clip

\* SettingsScreen.handleHistoryToggle.
handleHistoryToggle ==
  /\ MainScreen
  /\ UserStep
  /\ saveHistory' = ~saveHistory
  /\ UNCHANGED <<inputText, translatedText, fromLang, toLang, isTranslating,
                 flags, translationCache, meta, nativeLang, history, timer,
                 healthPending, listener, inv, lastWriter, last>>
  /\ UNCHANGED clip

\* ------------------------------------------- detectLanguageAndTranslate
\* The argument of save_translation_history, lines 353-361 and 404-412.
HistoryRecord(r, value, engine, latency) ==
  [sourceText |-> r.text, translatedText |-> value,
   fromLanguage |-> r.actualFromLang, toLanguage |-> r.actualToLang,
   engine |-> engine,
   latencyMs |-> IF latency > 0 THEN <<latency>> ELSE <<>>]

\* Lines 349-350 and 400-401: whether the result is sent to the history.
SavesHistory(r, value) ==
  saveHistory /\ Trim(r.text) # <<>> /\ Trim(value) # <<>>

\* The finally block, lines 441-443, and the return of the invocation.
Finish(i, r, outcome) ==
  /\ inv' = [inv EXCEPT ![i] = Idle]
  /\ isTranslating' = FALSE
  /\ last' = [r EXCEPT !.pc = "done", !.outcome = outcome, !.saved = <<>>]

\* The detection call answers: lines 267-310, and on a cache miss the
\* translate call of lines 316-335 is issued.
DetectOk(i, detectedLang) ==
  LET r == inv[i]
      native == NativeLangOf(nativeLang)
      res == ResolveTarget(r.fromLang, detectedLang, r.toLang, native)
      key == CacheKeyOf(r.text, detectedLang, res.to)
      r1 == [r EXCEPT !.detected = detectedLang, !.actualFromLang = detectedLang,
                      !.actualToLang = res.to, !.cacheKey = key]
  IN
  /\ r.pc = "detect"
  /\ fromLang' = IF r.fromLang = "Auto" THEN detectedLang ELSE fromLang
  /\ toLang' = IF res.set THEN res.to ELSE toLang
  /\ IF CacheHit(translationCache, key)
       THEN LET cached == CacheGet(translationCache, key) IN
            /\ translatedText' = cached
            /\ lastWriter' = i
            /\ Finish(i, [r1 EXCEPT !.written = cached], "hit")
       ELSE /\ isTranslating' = TRUE
            /\ inv' = [inv EXCEPT ![i] =
                 [r1 EXCEPT !.pc = "translate", !.entered = TRUE,
                    !.calls = Append(@, [engine |-> FirstEngine(r),
                                          from |-> detectedLang, to |-> res.to])]]
            /\ UNCHANGED <<translatedText, lastWriter, last>>
  /\ UNCHANGED <<inputText, flags, translationCache, meta, prefs, history,
                 timer, counters>>
  /\ UNCHANGED clip
  /\ MountEffect

\* The catch block, lines 375-440, entered with `error` by an invocation
\* whose record is r: the fallback call to Ollama is issued, or the
\* message is shown.
Catch(i, r, error) ==
  IF FallbackGuard(r)
    THEN /\ inv' = [inv EXCEPT ![i] =
              [r EXCEPT !.pc = "fallback", !.error = error,
                 !.calls = Append(@, [engine |-> "ollama",
                                       from |-> r.actualFromLang,
                                       to |-> r.actualToLang])]]
         /\ UNCHANGED <<translatedText, isTranslating, lastWriter, last>>
    ELSE LET message == ErrorMessage(error, r) IN
         /\ translatedText' = message
         /\ lastWriter' = i
         /\ Finish(i, [r EXCEPT !.written = message], "error")

\* The detection call fails.
DetectFail(i, error) ==
  LET r == inv[i] IN
  /\ r.pc = "detect"
  /\ Catch(i, [r EXCEPT !.detectFailed = TRUE,
                        !.failed = @ \cup {FirstEngine(r)}], error)
  /\ UNCHANGED <<fromLang, toLang>>
  /\ UNCHANGED <<inputText, flags, translationCache, meta, prefs, history,
                 timer, counters>>
  /\ UNCHANGED clip
  /\ MountEffect

\* The translate call of the first engine answers: lines 323-366.
TranslateOk(i, value, latency) ==
  LET r == inv[i]
      engine == FirstEngine(r)
      r1 == [r EXCEPT !.wrote = TRUE, !.written = value, !.engineUsed = engine]
      cache1 == CacheSet(translationCache, r.cacheKey, value)
  IN
  /\ r.pc = "translate"
  /\ lastTranslationLatency' = <<latency>>
  /\ lastUsedEngine' = engine
  /\ translatedText' = value
  /\ lastWriter' = i
  /\ IF SavesHistory(r, value)
       THEN /\ translationCache' = cache1
            /\ inv' = [inv EXCEPT ![i] =
                 [r1 EXCEPT !.pc = "history",
                    !.saved = <<HistoryRecord(r, value, engine, latency)>>]]
            /\ UNCHANGED <<isTranslating, last>>
       ELSE /\ translationCache' = LimitCache(cache1)
            /\ Finish(i, r1, "success")
  /\ UNCHANGED <<fromLang, toLang>>
  /\ UNCHANGED <<inputText, flags, prefs, history, timer, counters>>
  /\ UNCHANGED clip
  /\ MountEffect

\* The translate call of the first engine fails.
TranslateFail(i, error) ==
  LET r == inv[i] IN
  /\ r.pc = "translate"
  /\ Catch(i, [r EXCEPT !.failed = @ \cup {FirstEngine(r)}], error)
  /\ UNCHANGED <<fromLang, toLang>>
  /\ UNCHANGED <<inputText, flags, translationCache, meta, prefs, history,
                 timer, counters>>
  /\ UNCHANGED clip
  /\ MountEffect

HistoryDoneUncaught(i, stored) ==
  LET r == inv[i]
      message == ErrorMessage(ErrorObject, r)
  IN
  /\ r.pc = "history"
  /\ IF stored
       THEN /\ history' = Append(history, r.saved[1])
            /\ translationCache' = LimitCache(translationCache)
            /\ Finish(i, r, "success")
            /\ UNCHANGED <<translatedText, lastWriter>>
       ELSE /\ translatedText' = message
            /\ lastWriter' = i
            /\ Finish(i, [r EXCEPT !.written = message], "error")
            /\ UNCHANGED <<history, translationCache>>
  /\ UNCHANGED <<inputText, fromLang, toLang, flags, meta, prefs, timer,
                 counters>>
  /\ UNCHANGED clip
  /\ MountEffect

\* The awaited save_translation_history returns or throws (lines 353-365),
\* then the cache is trimmed (lines 368-374).
HistoryDone(i, stored) ==
  LET r == inv[i] IN
  /\ r.pc = "history"
  /\ history' = IF stored THEN Append(history, r.saved[1]) ELSE history
  /\ translationCache' = LimitCache(translationCache)
  /\ Finish(i, r, "success")
  /\ UNCHANGED <<inputText, translatedText, fromLang, toLang, flags, meta,
                 prefs, timer, healthPending, listener, counters, lastWriter>>
  /\ UNCHANGED clip

\* The fallback call to Ollama answers: lines 390-419.
FallbackOk(i, value, latency) ==
  LET r == inv[i]
      r1 == [r EXCEPT !.wrote = TRUE, !.written = value, !.engineUsed = "ollama"]
  IN
  /\ r.pc = "fallback"
  /\ translatedText' = value
  /\ lastWriter' = i
  /\ lastTranslationLatency' = <<latency>>
  /\ lastUsedEngine' = "ollama"
  /\ translationCache' = CacheSet(translationCache, r.cacheKey, value)
  /\ IF SavesHistory(r, value)
       THEN /\ inv' = [inv EXCEPT ![i] =
                 [r1 EXCEPT !.pc = "fbhistory",
                    !.saved = <<HistoryRecord(r, value, "ollama", latency)>>]]
            /\ UNCHANGED <<isTranslating, last>>
       ELSE Finish(i, r1, "fallback")
  /\ UNCHANGED <<fromLang, toLang>>
  /\ UNCHANGED <<inputText, flags, prefs, history, timer, counters>>
  /\ UNCHANGED clip
  /\ MountEffect

\* The fallback call fails: lines 420-440, with the first error.
FallbackFail(i) ==
  LET r == inv[i]
      message == ErrorMessage(r.error, r)
  IN
  /\ r.pc = "fallback"
  /\ translatedText' = message
  /\ lastWriter' = i
  /\ Finish(i, [r EXCEPT !.written = message, !.failed = @ \cup {"ollama"}], "error")
  /\ UNCHANGED <<fromLang, toLang>>
  /\ UNCHANGED <<inputText, flags, translationCache, meta, prefs, history,
                 timer, counters>>
  /\ UNCHANGED clip
  /\ MountEffect

\* The awaited history save of the fallback returns or throws (lines 402-419).
FallbackHistoryDone(i, stored) ==
  LET r == inv[i] IN
  /\ r.pc = "fbhistory"
  /\ history' = IF stored THEN Append(history, r.saved[1]) ELSE history
  /\ Finish(i, r, "fallback")
  /\ UNCHANGED <<inputText, translatedText, fromLang, toLang, flags,
                 translationCache, meta, prefs, timer, healthPending, listener, counters,
                 lastWriter>>
  /\ UNCHANGED clip

\* ------------------------------------------------------------ specification
Next ==
  \/ \E language \in Langs : setupNativeLanguage(language)
  \/ \E text \in Texts \cup {<<>>} : setInputText(text)
  \/ TimerFire
  \/ \E sourceText \in Texts : onLoadTranslation(sourceText)
  \/ \E i \in Slots, detectedLang \in Langs : DetectOk(i, detectedLang)
  \/ \E i \in Slots, error \in Errors : DetectFail(i, error)
  \/ \E i \in Slots, value \in Translations, latency \in Latencies :
       TranslateOk(i, value, latency)
  \/ \E i \in Slots, error \in Errors : TranslateFail(i, error)
  \/ \E i \in Slots, stored \in BOOLEAN : HistoryDone(i, stored)

Spec == Init /\ [][Next]_vars

\* The detection call of slot i returns or fails.
DetectionReturns(i) ==
  \/ \E detectedLang \in Langs : DetectOk(i, detectedLang)
  \/ \E error \in Errors : DetectFail(i, error)

\* The translate call of slot i returns or fails.
TranslationReturns(i) ==
  \/ \E value \in Translations, latency \in Latencies :
       TranslateOk(i, value, latency)
  \/ \E error \in Errors : TranslateFail(i, error)

\* Every detection and translation call eventually returns or fails; the
\* history sink may never answer.
BackendsAnswer ==
  \A i \in Slots :
    WF_vars(DetectionReturns(i)) /\ WF_vars(TranslationReturns(i))

SpecLive == InitLive /\ [][Next]_vars /\ BackendsAnswer

NextEngines ==
  \/ \E language \in Langs : setupNativeLanguage(language)
  \/ \E healthy \in BOOLEAN : checkOllamaHealth(healthy)
  \/ \E healthy \in BOOLEAN : checkMLHealth(healthy)
  \/ toggleEngine
  \/ \E text \in Texts \cup {<<>>} : setInputText(text)
  \/ TimerFire
  \/ \E i \in Slots, detectedLang \in Langs : DetectOk(i, detectedLang)
  \/ \E i \in Slots, error \in Errors : DetectFail(i, error)
  \/ \E i \in Slots, value \in Translations, latency \in Latencies :
       TranslateOk(i, value, latency)
  \/ \E i \in Slots, error \in Errors : TranslateFail(i, error)
  \/ \E i \in Slots, stored \in BOOLEAN : HistoryDone(i, stored)
  \/ \E i \in Slots, value \in Translations, latency \in Latencies :
       FallbackOk(i, value, latency)
  \/ \E i \in Slots : FallbackFail(i)
  \/ \E i \in Slots, stored \in BOOLEAN : FallbackHistoryDone(i, stored)

SpecEngines == InitEngines /\ [][NextEngines]_vars

NextSelect ==
  \/ \E language \in Langs : setupNativeLanguage(language)
  \/ \E text \in Texts \cup {<<>>} : setInputText(text)
  \/ TimerFire
  \/ \E language \in Langs \cup {"Auto"} : selectFromLang(language)
  \/ \E language \in Langs : selectToLang(language)
  \/ \E langCode \in Langs : handleLanguageChange(langCode)
  \/ handleHistoryToggle
  \/ \E i \in Slots, detectedLang \in Langs : DetectOk(i, detectedLang)
  \/ \E i \in Slots, error \in Errors : DetectFail(i, error)
  \/ \E i \in Slots, value \in Translations, latency \in Latencies :
       TranslateOk(i, value, latency)
  \/ \E i \in Slots, error \in Errors : TranslateFail(i, error)
  \/ \E i \in Slots, stored \in BOOLEAN : HistoryDone(i, stored)

SpecSelect == InitSelect /\ [][NextSelect]_vars

\* In SpecShortcut the user types the texts of Texts, a word and a blank.
NextShortcut ==
  \/ \E language \in Langs : setupNativeLanguage(language)
  \/ \E text \in Texts : setInputText(text)
  \/ TimerFire
  \/ \E clipboardText \in Texts : translateShortcut(clipboardText)
  \/ \E i \in Slots, detectedLang \in Langs : DetectOk(i, detectedLang)
  \/ \E i \in Slots, error \in Errors : DetectFail(i, error)
  \/ \E i \in Slots, value \in Translations, latency \in Latencies :
       TranslateOk(i, value, latency)
  \/ \E i \in Slots, error \in Errors : TranslateFail(i, error)
  \/ \E i \in Slots, stored \in BOOLEAN : HistoryDone(i, stored)

SpecShortcut == InitShortcut /\ [][NextShortcut]_vars

NextSwap ==
  \/ \E language \in Langs : setupNativeLanguage(language)
  \/ \E text \in SwapTexts \cup {<<>>} : setInputText(text)
  \/ TimerFire
  \/ switchLanguagesButton
  \/ languageSwapListener
  \/ \E i \in Slots, detectedLang \in Langs : DetectOk(i, detectedLang)
  \/ \E i \in Slots, error \in Errors : DetectFail(i, error)
  \/ \E i \in Slots, value \in Translations, latency \in Latencies :
       TranslateOk(i, value, latency)
  \/ \E i \in Slots, error \in Errors : TranslateFail(i, error)
  \/ \E i \in Slots, stored \in BOOLEAN : HistoryDone(i, stored)

SpecSwap == InitSwap /\ [][NextSwap]_vars

NextClipboard ==
  \/ \E language \in Langs : setupNativeLanguage(language)
  \/ toggleAutoTranslate
  \/ checkClipboard
  \/ \E n \in 1..MaxPolls, clipboardText \in Texts \cup {<<>>} :
       checkClipboardAnswer(n, clipboardText)
  \/ \E n \in 1..MaxPolls : checkClipboardError(n)
  \/ \E text \in Texts \cup {<<>>} : setInputText(text)
  \/ TimerFire
  \/ \E i \in Slots, detectedLang \in Langs : DetectOk(i, detectedLang)
  \/ \E i \in Slots, error \in Errors : DetectFail(i, error)
  \/ \E i \in Slots, value \in Translations, latency \in Latencies :
       TranslateOk(i, value, latency)
  \/ \E i \in Slots, error \in Errors : TranslateFail(i, error)
  \/ \E i \in Slots, stored \in BOOLEAN : HistoryDone(i, stored)

SpecClipboard == InitClipboard /\ [][NextClipboard]_vars

\* In SpecReload the probes answer and the engine is chosen before the first
\* reload, and an invocation starts when no other is in flight.
NextReload ==
  \/ \E language \in Langs : setupNativeLanguage(language)
  \/ \E healthy \in BOOLEAN :
       callsLeft = MaxReloadCalls /\ checkOllamaHealth(healthy)
  \/ \E healthy \in BOOLEAN :
       callsLeft = MaxReloadCalls /\ checkMLHealth(healthy)
  \/ callsLeft = MaxReloadCalls /\ toggleEngine
  \/ \E sourceText \in Texts : BusySlots = {} /\ onLoadTranslation(sourceText)
  \/ \E i \in Slots, detectedLang \in Langs : DetectOk(i, detectedLang)
  \/ \E i \in Slots, error \in Errors : DetectFail(i, error)
  \/ \E i \in Slots, value \in Translations, latency \in Latencies :
       TranslateOk(i, value, latency)
  \/ \E i \in Slots, error \in Errors : TranslateFail(i, error)
  \/ \E i \in Slots, stored \in BOOLEAN : HistoryDone(i, stored)
  \/ \E i \in Slots, value \in Translations, latency \in Latencies :
       FallbackOk(i, value, latency)
  \/ \E i \in Slots : FallbackFail(i)
  \/ \E i \in Slots, stored \in BOOLEAN : FallbackHistoryDone(i, stored)

SpecReload == InitReload /\ [][NextReload]_vars

\* ------------------------------------------------------------------ claims
\* The invocations in flight and the one that completed last.
Records == {inv[i] : i \in Slots} \cup {last}
\* The invocation has resolved its effective pair (line 303 is passed).
Resolved(r) == r.detected # NoValue
Completed(r) == r.pc = "done"

\* C1: the effective pair an invocation resolves before the cache lookup
\* has a source different from its target, whatever the declared source,
\* the current target, the native language and the detected language.
C1_PairDistinct ==
  \A r \in Records : Resolved(r) => r.actualFromLang # r.actualToLang

\* C2: in every reachable state the translation cache holds at most
\* CacheLimit entries (the program's 100).
C2_CacheBounded == Len(translationCache) <= CacheLimit

\* The backend the preference flag selects, and the other one.
Preferred(r) == IF r.useMLEngine THEN "ml" ELSE "ollama"
Other(r) == IF r.useMLEngine THEN "ollama" ELSE "ml"
Healthy(r, engine) == IF engine = "ml" THEN r.mlEngineHealthy ELSE r.isHealthy

\* C3: when the preferred backend is flagged unhealthy, the other one is
\* flagged healthy and never fails a call, an invocation that misses the
\* cache succeeds and the engine reported as used is the other backend.
C3_AlternateUsed ==
  \A r \in Records :
    ( /\ Completed(r)
      /\ Resolved(r)
      /\ r.outcome # "hit"
      /\ ~Healthy(r, Preferred(r))
      /\ Healthy(r, Other(r))
      /\ Other(r) \notin r.failed )
    => /\ r.outcome \in {"success", "fallback"}
       /\ r.engineUsed = Other(r)

\* C4: when both health flags are false, an invocation for a non-blank
\* text that misses the cache ends in the error state with the
\* engine-unavailable message, and has written no cache entry.
C4_BothUnhealthyFails ==
  \A r \in Records :
    (Completed(r) /\ r.outcome # "hit" /\ ~r.isHealthy /\ ~r.mlEngineHealthy)
    => /\ r.outcome = "error"
       /\ r.written = MsgUnavailable
       /\ ~r.wrote

\* C5: a failed detection call does not end the invocation in the error
\* state: an invocation whose detection failed goes on to a translate
\* call whose source is the source declared before the call.
C5_DetectionFailureContinues ==
  \A r \in Records :
    (Completed(r) /\ r.detectFailed)
    => /\ r.calls # <<>>
       /\ r.calls[1].from = r.fromLang

\* C6: after an invocation for a text has settled successfully with an
\* effective pair, a later invocation for the same text that resolves to
\* the same pair makes no translate call and shows the same value.
C6_SecondCallHits ==
  \A r \in Records : \A p \in r.prior :
    ( /\ Resolved(r)
      /\ p.text = r.text
      /\ p.from = r.actualFromLang
      /\ p.to = r.actualToLang )
    => /\ r.calls = <<>>
       /\ Completed(r) => r.written = p.value

\* C7: once two overlapping invocations have both completed, the visible
\* translated text is the value written by the one that completed last
\* (unless the input was cleared since).
C7_LastCompletionWins ==
  (BusySlots = {} /\ Completed(last) /\ last.overlapped /\ lastWriter # 0)
  => translatedText = last.written

\* C8: isTranslating is true exactly when some invocation has issued its
\* translate call after a cache miss and has not completed.
C8_FlagTracksTranslating ==
  isTranslating <=> \E i \in Slots : InFlight(inv[i]) /\ inv[i].entered

\* C9: when the declared source is a concrete language different from the
\* current target, the effective pair of the cache key and of every
\* translate call is (declared source, current target), whatever language
\* the detection reports.
C9_ManualPairPassedThrough ==
  \A r \in Records :
    (Resolved(r) /\ r.fromLang # "Auto" /\ r.fromLang # r.toLang)
    => /\ r.actualFromLang = r.fromLang
       /\ r.actualToLang = r.toLang
       /\ r.cacheKey = CacheKeyOf(r.text, r.fromLang, r.toLang)
       /\ \A n \in 1..Len(r.calls) :
            r.calls[n].from = r.fromLang /\ r.calls[n].to = r.toLang

\* The record of slot i after a step, wherever the step has left it.
After(i) == IF InFlight(inv'[i]) THEN inv'[i] ELSE last'

\* C10: when the declared source is Auto and the detection reports D with
\* native language N, the resolved target is English if D = N and N
\* otherwise, and the visible target is set to it.
C10_AutoTarget ==
  [][\A i \in Slots :
       ( /\ inv[i].pc = "detect"
         /\ inv[i].fromLang = "Auto"
         /\ Resolved(After(i)) )
       => LET D == After(i).detected
              N == NativeLangOf(nativeLang)
              target == IF D = N THEN "English" ELSE N
          IN /\ After(i).actualToLang = target
             /\ toLang' = target]_vars

\* An Auto invocation has resolved a text in the native language: its
\* target and the visible target are English, the captured target was not.
C10_Witness ==
  \E r \in Records :
    /\ Resolved(r)
    /\ r.fromLang = "Auto"
    /\ r.detected = NativeLangOf(nativeLang)
    /\ r.detected # "English"
    /\ r.toLang # "English"
    /\ r.actualToLang = "English"
    /\ toLang = "English"

\* Slot i completes in this step, with a translation stored.
CompletesStored(i) ==
  /\ InFlight(inv[i])
  /\ ~InFlight(inv'[i])
  /\ last'.outcome \in {"success", "fallback"}

\* The cache once the invocation of slot i has stored its entry, seen from
\* the step that completes it.
CacheWithStore(i) ==
  IF inv[i].pc \in {"history", "fbhistory"}
    THEN translationCache
    ELSE CacheSet(translationCache, inv[i].cacheKey, last'.written)

\* C11: when the entry an invocation stores takes the cache past
\* CacheLimit (the program's 100), the invocation leaves the cache without
\* its earliest entry, whatever the key of that entry, and with every
\* other entry. Stated for an invocation no other one overlaps, at its
\* completion.
C11_EvictsOldest ==
  [][\A i \in Slots :
       (CompletesStored(i) /\ ~inv[i].overlapped
          /\ Len(CacheWithStore(i)) > CacheLimit)
       => /\ translationCache' = Tail(CacheWithStore(i))
          /\ ~CacheHas(translationCache', CacheWithStore(i)[1].key)]_vars

\* C12: every translate call of an invocation, direct or fallback, carries
\* a concrete source language, and so does every cache key it computes:
\* never the sentinel Auto.
C12_ConcreteSource ==
  \A r \in Records :
    /\ \A n \in 1..Len(r.calls) : r.calls[n].from # "Auto"
    /\ r.cacheKey # "" => r.actualFromLang # "Auto"

\* Slot i takes a new invocation in this step.
Starts(i) == ~InFlight(inv[i]) /\ InFlight(inv'[i])

\* C13: if the backend the preference flag selects is flagged healthy at
\* the moment an invocation starts, whatever started it, the first
\* translate attempt of the invocation goes to that backend.
C13_PreferredFirst ==
  [][\A i \in Slots :
       (Starts(i) /\ Healthy(Flags, Preferred(Flags)))
       => FirstEngine(inv'[i]) = Preferred(Flags)]_vars

\* C14: an invocation makes at most two translate calls, no two of them
\* to the same backend, the second only after the first has failed; a
\* failed fallback is not tried again.
C14_AtMostOneFallback ==
  \A r \in Records :
    /\ Len(r.calls) <= 2
    /\ Len(r.calls) = 2 =>
         /\ r.calls[1].engine # r.calls[2].engine
         /\ r.calls[1].engine \in r.failed
    /\ (Completed(r) /\ r.calls # <<>> /\ r.calls[Len(r.calls)].engine \in r.failed)
         => r.outcome = "error"

\* An invocation has completed in error after its ML call and its one
\* fallback call to Ollama have both failed.
C14_Witness ==
  /\ Completed(last)
  /\ Len(last.calls) = 2
  /\ last.calls[1].engine = "ml"
  /\ last.calls[2].engine = "ollama"
  /\ last.failed = {"ml", "ollama"}
  /\ last.outcome = "error"

\* The texts the catch block can show.
ErrorTexts ==
  {MsgGeneric, MsgCannotConnect, MsgNoModel, MsgModelLoad, MsgUnavailable}
    \cup {MsgRaw(e) : e \in {x \in Errors : IsString(x)}}

\* Slot i completes in this step, in the error state.
CompletesError(i) ==
  /\ InFlight(inv[i])
  /\ ~InFlight(inv'[i])
  /\ last'.outcome = "error"

\* C15: an invocation whose attempts have all failed shows an error
\* message in place of the result and has made no cache write and no
\* history save: the step that completes it leaves the cache and the
\* history as they are, and every step that changes the cache or the
\* history belongs to an invocation that has written its translation.
C15_FailureLeavesNoTrace ==
  [][/\ \A i \in Slots :
          CompletesError(i) =>
            /\ translatedText' \in ErrorTexts
            /\ ~last'.wrote
            /\ last'.engineUsed = NoValue
            /\ UNCHANGED <<translationCache, history>>
     /\ (translationCache' # translationCache \/ history' # history)
          => \E i \in Slots : InFlight(inv[i]) /\ After(i).wrote]_vars

\* After a first invocation has stored its translation and its history
\* record, a second one has failed on both backends: its message is shown
\* and the cache and the history still hold the first one's entry.
C15_Witness ==
  /\ Completed(last)
  /\ last.outcome = "error"
  /\ last.failed = {"ml", "ollama"}
  /\ translatedText = last.written
  /\ translatedText \in ErrorTexts
  /\ Len(translationCache) = 1
  /\ Len(history) = 1

\* The fixed messages of the catch block.
Templates ==
  {MsgGeneric, MsgCannotConnect, MsgNoModel, MsgModelLoad, MsgUnavailable}

\* C16: the text an invocation shows when it ends in the error state is
\* one of the fixed messages: the error value a backend returned is no
\* part of it.
C16_TemplatesOnly ==
  \A r \in Records :
    (Completed(r) /\ r.outcome = "error") => r.written \in Templates

\* C17: when the key of the effective pair is in the cache, the invocation
\* shows the cached value, makes no translate call and leaves the cache,
\* the latency and the engine used as they are.
C17_HitChangesNothingElse ==
  [][\A i \in Slots :
       ( /\ inv[i].pc = "detect"
         /\ Resolved(After(i))
         /\ CacheHas(translationCache, After(i).cacheKey) )
       => /\ translatedText' = CacheGet(translationCache, After(i).cacheKey)
          /\ After(i).calls = <<>>
          /\ UNCHANGED <<translationCache, meta>>]_vars

\* C18: a cache entry keeps its value as long as its key is in the cache,
\* whatever later or overlapping invocations for the same triple do, and
\* no key has two entries.
C18_EntriesImmutable ==
  [][/\ \A n \in 1..Len(translationCache), m \in 1..Len(translationCache') :
          translationCache[n].key = translationCache'[m].key
            => translationCache[n].value = translationCache'[m].value
     /\ \A n, m \in 1..Len(translationCache') :
          translationCache'[n].key = translationCache'[m].key => n = m]_vars

\* C19: an invocation has a detection call pending, or answered, only if
\* the source language declared when it started is Auto.
C19_DetectOnlyInAuto ==
  \A r \in Records :
    (r.pc = "detect" \/ Resolved(r) \/ r.detectFailed) => r.fromLang = "Auto"

\* C20: an invocation whose text is blank after trimming returns at once
\* and changes nothing. Seen on the translate shortcut with a blank
\* clipboard text: no invocation is in flight that was not, and the cache,
\* the history, the declared source, the target, the latency, the engine
\* and isTranslating are unchanged; the visible result is what the effect
\* of the input change alone makes it.
C20_BlankIgnored ==
  [][\A clipboardText \in Texts :
       (Trim(clipboardText) = <<>> /\ translateShortcut(clipboardText))
       => /\ UNCHANGED <<inv, callsLeft, translationCache, history, fromLang,
                          toLang, meta, isTranslating, last>>
          /\ translatedText' =
               IF clipboardText # inputText THEN <<>> ELSE translatedText]_vars

\* The shortcut has brought a blank clipboard text while an invocation was
\* waiting for its translation: the invocation and isTranslating are as
\* they were, and no further invocation has started.
C20_Witness ==
  /\ nativeLang = NoValue
  /\ inputText = <<" ">>
  /\ isTranslating
  /\ callsLeft = MaxShortcutCalls - 1
  /\ \E i \in Slots : inv[i].pc = "translate"
  /\ \A i \in Slots : inv[i].text # <<" ">>

C22_PollOnlyInAutoMode ==
  [][\A n \in 1..MaxPolls, clipboardText \in Texts \cup {<<>>} :
       checkClipboardAnswer(n, clipboardText) =>
         IF /\ autoTranslate
            /\ Trim(clipboardText) # <<>>
            /\ clipboardText # lastClipboard
           THEN /\ lastClipboard' = clipboardText
                /\ inputText' = clipboardText
           ELSE UNCHANGED <<inputText, lastClipboard, translatedText, timer>>]_vars

\* C23: switchLanguages changes nothing when the source is Auto; with a
\* concrete source it exchanges the language tags and exchanges the input
\* text and the result text (the result being cleared by the debounce
\* effect when the new input is blank), and starts no invocation.
C23_SwitchExchanges ==
  [][(switchLanguagesButton \/ languageSwapListener) =>
       IF fromLang = "Auto"
         THEN UNCHANGED vars
         ELSE /\ fromLang' = toLang
              /\ toLang' = fromLang
              /\ inputText' = translatedText
              /\ translatedText' =
                   IF translatedText # inputText /\ Trim(translatedText) = <<>>
                     THEN <<>> ELSE inputText
              /\ UNCHANGED <<inv, callsLeft, isTranslating>>]_vars

\* C30: a swap with a concrete source loses no text: after
\* switchLanguages and the effects of the render it causes, the former
\* input text is the result text and the former result text is the input
\* text, also when the result text was empty (so that a second swap
\* restores the languages and the texts).
C30_SwapKeepsTexts ==
  [][(switchLanguagesButton /\ fromLang # "Auto") =>
       /\ inputText' = translatedText
       /\ translatedText' = inputText
       /\ fromLang' = toLang
       /\ toLang' = fromLang]_vars

\* Slot i completes in this step after its history save has failed.
HistorySaveFails(i) ==
  /\ inv[i].pc \in {"history", "fbhistory"}
  /\ ~InFlight(inv'[i])
  /\ history' = history

\* C24: a failed history save changes nothing of the translation it
\* belongs to: the step in which the save fails leaves the visible result,
\* the latency and the engine as the translation set them, shows no error
\* message, ends the invocation as a success, and leaves the cache as a
\* successful save leaves it (trimmed on the direct path, untouched on the
\* fallback path), with the entry of the translation.
C24_HistoryFailureHarmless ==
  [][\A i \in Slots :
       HistorySaveFails(i) =>
         /\ UNCHANGED <<translatedText, meta, lastWriter>>
         /\ last'.outcome = IF inv[i].pc = "history" THEN "success" ELSE "fallback"
         /\ last'.written = inv[i].written
         /\ last'.engineUsed = inv[i].engineUsed
         /\ ~isTranslating'
         /\ translationCache' =
              IF inv[i].pc = "history" THEN LimitCache(translationCache)
              ELSE translationCache
         /\ ~inv[i].overlapped =>
              /\ CacheHas(translationCache', inv[i].cacheKey)
              /\ CacheGet(translationCache', inv[i].cacheKey) = inv[i].written]_vars

\* The history save of a fallback translation has failed: the history is
\* empty, the translation is shown, cached and reported with its engine.
C24_Witness ==
  /\ Completed(last)
  /\ last.outcome = "fallback"
  /\ saveHistory
  /\ Trim(last.text) # <<>>
  /\ Trim(last.written) # <<>>
  /\ history = <<>>
  /\ translatedText = last.written
  /\ lastUsedEngine = "ollama"
  /\ CacheHas(translationCache, last.cacheKey)
  /\ CacheGet(translationCache, last.cacheKey) = last.written

\* C25: provided every detection and translation call returns or fails,
\* every invocation in flight eventually completes, whether or not the
\* history sink answers, and whenever no invocation is in flight
\* isTranslating is false.
C25_EveryInvocationCompletes ==
  /\ [](BusySlots = {} => ~isTranslating)
  /\ \A i \in Slots : InFlight(inv[i]) ~> ~InFlight(inv[i])

\* C26: when an invocation that no other one overlaps resolves its
\* effective pair, the declared pair it started with still being the
\* visible one, the visible source and target become that effective pair
\* (and stay so until it settles, if the user does nothing), and the
\* visible source differs from the visible target.
C26_VisiblePairIsEffective ==
  [][\A i \in Slots :
       ( /\ inv[i].pc = "detect"
         /\ Resolved(After(i))
         /\ ~After(i).overlapped
         /\ inv[i].fromLang = fromLang
         /\ inv[i].toLang = toLang )
       => /\ fromLang' = After(i).actualFromLang
          /\ toLang' = After(i).actualToLang
          /\ fromLang' # toLang']_vars

\* C27: a shortcut event with a non-blank clipboard text, and a reload from
\* the history screen, start one invocation for the text, and the input
\* update they make leaves no debounce timer that would start a second
\* one for the same text.
C27_OneInvocationPerTrigger ==
  [][\A text \in Texts :
       ( /\ Trim(text) # <<>>
         /\ translateShortcut(text) \/ onLoadTranslation(text) )
       => /\ callsLeft' = callsLeft - 1
          /\ \E i \in Slots : Starts(i) /\ inv'[i].text = text
          /\ ~(timer'.set /\ timer' # timer)]_vars

\* C28: whenever the input text is blank and no invocation is in flight,
\* the visible result is empty: an invocation started for an earlier text
\* leaves neither its translation nor its error message for the cleared
\* input.
C28_BlankInputShowsNothing ==
  (Trim(inputText) = <<>> /\ BusySlots = {}) => translatedText = <<>>

\* C29: a source or target language the user selects while an invocation
\* is in flight is not overwritten by that invocation: when it resolves
\* its pair after such a selection, a visible language that is no longer
\* the one the invocation started with stays as the user set it.
C29_SelectionKept ==
  [][\A i \in Slots :
       (inv[i].pc = "detect" /\ Resolved(After(i)) /\ inv[i].selected)
       => /\ fromLang # inv[i].fromLang => fromLang' = fromLang
          /\ toLang # inv[i].toLang => toLang' = toLang]_vars

====
